---- MODULE Spec2Model ----
(***************************************************************************)
(* KiTS19 slice dataset (dataset/kits19.py): the flat slice index built    *)
(* from the train / validation / test case lists, ROI trimming of each     *)
(* case, the case lookup of a global index, the clamped windowed read and   *)
(* the class remapping of a label array.                                   *)
(***************************************************************************)
EXTENDS Integers, Sequences, FiniteSets, TLC

\* ------------------------------------------------------------------ bounds
\* most cases named by the three case-id files together
MaxCases == 3
\* most slice files of a case where many cases are listed
MaxSlices == 2
\* most slice files of a case where the window or the ROI is varied
MaxDepth == 3
\* largest stack_num passed to the constructor
MaxStack == 5
\* largest roi_error_range passed to the constructor
MaxErr == 2
\* pixels of one label array
MaxPixels == 2

\* len(get_classes_name(spec=False)): background, kidney, tumor
NumClasses == 3

VARIABLES
    imaging,             \* root: case id -> number of imaging/*.npy files
    segmentation,        \* root: case id -> the label arrays of segmentation/*.npy, in sorted order
    train_case,          \* read_txt(train_case_ids_file)
    valid_case,          \* read_txt(valid_case_ids_file)
    test_case,           \* read_txt(test_case_ids_file)
    roi_file,            \* constructor argument: "None" or the name of the ROI file
    rois,                \* json.load(roi_file): key -> [kidney |-> [min_z, max_z]]
    roi_error_range,     \* constructor argument
    stack_num,           \* constructor argument
    spec_classes,        \* constructor argument
    pc,                  \* "new", "ready" (constructed) or "failed" (__init__ raised)
    imgs,                \* self._imgs
    labels,              \* self._labels
    case_slice_indices,  \* self._case_slice_indices
    train_indices,       \* self._train_indices
    valid_indices,       \* self._valid_indices
    test_indices,        \* self._test_indices
    ret                  \* what the last call returned or raised

root == <<imaging, segmentation, train_case, valid_case, test_case, rois>>
args == <<roi_file, roi_error_range, stack_num, spec_classes>>
object == <<imgs, labels, case_slice_indices, train_indices, valid_indices, test_indices>>
vars == <<root, args, object, pc, ret>>

\* ----------------------------------------------------------- python values
None == <<>>
Some(x) == <<x>>

Min(a, b) == IF a <= b THEN a ELSE b
Max(a, b) == IF a >= b THEN a ELSE b

\* list(range(a, b))
Range(a, b) == [k \in 1..Max(b - a, 0) |-> a + k - 1]

\* lst[i] of a list of length n is defined for -n <= i < n
PyIndexOk(n, i) == -n <= i /\ i < n
\* lst[i], a negative i counting from the end
PyIndex(lst, i) == IF i < 0 THEN lst[Len(lst) + i + 1] ELSE lst[i + 1]

\* the bound of a slice: negative counts from the end, then clipped to 0..n
PySliceBound(n, b) == IF b < 0 THEN Max(n + b, 0) ELSE Min(b, n)
\* lst[start: stop]
PySlice(lst, start, stop) ==
    SubSeq(lst, PySliceBound(Len(lst), start) + 1, PySliceBound(Len(lst), stop))

RECURSIVE Sum(_)
Sum(s) == IF s = <<>> THEN 0 ELSE Head(s) + Sum(Tail(s))

\* f'case_{case:05d}': the five decimal digits of a case number
CaseKey(n) ==
    <<(n \div 10000) % 10, (n \div 1000) % 10, (n \div 100) % 10, (n \div 10) % 10, n % 10>>

\* a slice file of a case: imaging/<z>.npy or segmentation/<z>.npy
Ref(dir, case, z) == [dir |-> dir, case |-> case, z |-> z]

\* ------------------------------------------------------------- _read_npy
\* min_z, max_z of one case with n image files (lines 98-103)
RoiRange(n, use_roi, roi, e) ==
    IF use_roi
    THEN [min_z |-> Max(0, roi.min_z - e), max_z |-> Min(n, roi.max_z + e)]
    ELSE [min_z |-> 0, max_z |-> n]

\* sorted(glob('*.npy'))[min_z: max_z] of a directory holding n files
TrimDir(dir, case, n, r) ==
    PySlice([k \in 1..n |-> Ref(dir, case, k - 1)], r.min_z, r.max_z)

Raise(exc) == [status |-> exc, imgs |-> <<>>, labels |-> <<>>, case_slice_num |-> <<>>]

RECURSIVE ReadNpyFrom(_, _, _, _, _, _)
ReadNpyFrom(cases, is_test, k, acc_imgs, acc_labels, acc_num) ==
    IF k > Len(cases)
    THEN [status |-> "ok", imgs |-> acc_imgs, labels |-> acc_labels,
          case_slice_num |-> acc_num]
    ELSE LET case == cases[k] IN
         IF case \notin DOMAIN imaging THEN Raise("AssertionError")
         ELSE IF roi_file # "None" /\ CaseKey(case) \notin DOMAIN rois THEN Raise("KeyError")
         ELSE LET use_roi == roi_file # "None"
                  roi == IF use_roi THEN rois[CaseKey(case)].kidney
                         ELSE [min_z |-> 0, max_z |-> 0]
                  r == RoiRange(imaging[case], use_roi, roi, roi_error_range)
                  case_imgs == TrimDir("imaging", case, imaging[case], r)
                  new_imgs == acc_imgs \o case_imgs
              IN IF is_test
                 THEN ReadNpyFrom(cases, is_test, k + 1, new_imgs, acc_labels,
                                  Append(acc_num, Len(case_imgs)))
                 ELSE IF case \notin DOMAIN segmentation THEN Raise("AssertionError")
                 ELSE LET case_labels == TrimDir("segmentation", case,
                                                 Len(segmentation[case]), r)
                          new_labels == acc_labels \o case_labels
                      IN IF Len(new_imgs) # Len(new_labels) THEN Raise("AssertionError")
                         ELSE ReadNpyFrom(cases, is_test, k + 1, new_imgs, new_labels,
                                          Append(acc_num, Len(case_imgs)))

ReadNpy(cases, is_test) == ReadNpyFrom(cases, is_test, 1, <<>>, <<>>, <<>>)

\* ------------------------------------------------------------- _get_data
\* self._case_slice_indices: [0] and the running sum of the slice numbers
CaseSliceIndices(nums) == [k \in 1..(Len(nums) + 1) |-> Sum(SubSeq(nums, 1, k - 1))]

\* IndexSlice with the stop index taken as the last index of the range
IndexSliceInclusive(n, a, b) == PySlice(Range(0, n), a, b + 1)

\* self._indices[a: b] of list(range(n))
IndexSlice(n, a, b) == PySlice(Range(0, n), a, b)

\* the object's fields after _get_data, or the exception it raised
GetData ==
    LET tr == ReadNpy(train_case, FALSE)
        va == ReadNpy(valid_case, FALSE)
        te == ReadNpy(test_case, TRUE)
        all == tr.imgs \o va.imgs \o te.imgs
        T == Len(tr.imgs)
        V == Len(va.imgs)
        E == Len(te.imgs)
    IN [status |-> IF tr.status # "ok" THEN tr.status
                   ELSE IF va.status # "ok" THEN va.status ELSE te.status,
        imgs |-> all,
        labels |-> tr.labels \o va.labels \o te.labels,
        train_indices |-> IndexSlice(Len(all), 0, T),
        valid_indices |-> IndexSlice(Len(all), T, T + V),
        test_indices |-> IndexSlice(Len(all), T + V, T + V + E),
        case_slice_indices |->
            CaseSliceIndices(tr.case_slice_num \o va.case_slice_num \o te.case_slice_num)]

\* the fields of the constructed object, as the methods below read them
Self ==
    [imgs |-> imgs, labels |-> labels, case_slice_indices |-> case_slice_indices,
     train_indices |-> train_indices, valid_indices |-> valid_indices,
     test_indices |-> test_indices]

InList(lst, x) == \E k \in 1..Len(lst) : lst[k] = x

\* ---------------------------------------------------- img_idx_to_case_idx
\* ImgIdxToCaseIdx with the upper boundary compared by <=
ImgIdxToCaseIdxInclusive(self, idx) ==
    LET csi == self.case_slice_indices
        hit == {i \in 0..(Len(csi) - 2) : csi[i + 1] <= idx /\ idx <= csi[i + 2]}
    IN IF hit = {} THEN 0 ELSE CHOOSE i \in hit : \A j \in hit : i <= j

\* the first i with csi[i] <= idx < csi[i + 1], and 0 when the loop finds none
ImgIdxToCaseIdx(self, idx) ==
    LET csi == self.case_slice_indices
        hit == {i \in 0..(Len(csi) - 2) : csi[i + 1] <= idx /\ idx < csi[i + 2]}
    IN IF hit = {} THEN 0 ELSE CHOOSE i \in hit : \A j \in hit : i <= j

\* ---------------------------------------------------------- get_stack_img
\* range(idx - stack_num // 2, idx + stack_num // 2 + 1)
Window(idx, s) == Range(idx - s \div 2, idx + s \div 2 + 1)

\* Clamp with the upper edge taken as the case's end boundary itself
ClampPastEnd(i, lo, hi) == IF i < lo THEN lo ELSE IF i > hi THEN hi ELSE i

\* lines 252-255 with lo, hi the owning case's boundaries
Clamp(i, lo, hi) == IF i < lo THEN lo ELSE IF i >= hi THEN hi - 1 ELSE i

Sample(status, idx, case_idx, window, image, label_ref, label, roi) ==
    [status |-> status, index |-> idx, case_idx |-> case_idx, window |-> window,
     image |-> image, label_ref |-> label_ref, label |-> label, roi |-> roi]

\* the loop of lines 251-258: the clamped indices and the files loaded, up to
\* the first index error
RECURSIVE LoadWindow(_, _, _, _, _, _)
LoadWindow(self, case_idx, win, k, window, image) ==
    IF k > Len(win) THEN [status |-> "ok", window |-> window, image |-> image]
    ELSE LET csi == self.case_slice_indices
             i0 == win[k]
             lo == csi[case_idx + 1]
         IN IF i0 >= lo /\ case_idx + 2 > Len(csi)
            THEN [status |-> "IndexError", window |-> window, image |-> image]
            ELSE LET i == IF i0 < lo THEN lo ELSE Clamp(i0, lo, csi[case_idx + 2])
                 IN IF ~PyIndexOk(Len(self.imgs), i)
                    THEN [status |-> "IndexError", window |-> Append(window, i),
                          image |-> image]
                    ELSE LoadWindow(self, case_idx, win, k + 1, Append(window, i),
                                    Append(image, PyIndex(self.imgs, i)))

\* np.load of a label file
LoadLabel(ref) == segmentation[ref.case][ref.z + 1]

GetStackImg(self, idx) ==
    LET case_idx == ImgIdxToCaseIdx(self, idx)
        w == LoadWindow(self, case_idx, Window(idx, stack_num), 1, <<>>, <<>>)
        is_test == InList(self.test_indices, idx)
    IN IF w.status # "ok"
       THEN Sample(w.status, idx, case_idx, w.window, w.image, None, None, None)
       ELSE IF ~is_test /\ ~PyIndexOk(Len(self.labels), idx)
       THEN Sample("IndexError", idx, case_idx, w.window, w.image, None, None, None)
       ELSE LET label_ref == IF is_test THEN None ELSE Some(PyIndex(self.labels, idx))
                label == IF is_test THEN None ELSE Some(LoadLabel(label_ref[1]))
            IN IF roi_file # "None" /\ CaseKey(case_idx) \notin DOMAIN rois
               THEN Sample("KeyError", idx, case_idx, w.window, w.image, label_ref,
                           label, None)
               ELSE Sample("ok", idx, case_idx, w.window, w.image, label_ref, label,
                           IF roi_file = "None" THEN None
                           ELSE Some(rois[CaseKey(case_idx)].kidney))

\* ------------------------------------------------------ _default_transform
\* spec_class_idx: the distinct values of spec_classes in first-occurrence order
RECURSIVE SpecClassIdx(_)
SpecClassIdx(sc) ==
    IF sc = <<>> THEN <<>>
    ELSE LET init == SpecClassIdx(SubSeq(sc, 1, Len(sc) - 1))
             last == sc[Len(sc)]
         IN IF InList(init, last) THEN init ELSE Append(init, last)

\* lst.index(x)
ListIndex(lst, x) == (CHOOSE k \in 1..Len(lst) : lst[k] = x /\ \A j \in 1..(k - 1) : lst[j] # x) - 1

\* np.where(label == i)
Mask(label, i) == {p \in 1..Len(label) : label[p] = i}

\* label[mask] = value
Assign(label, mask, value) == [p \in 1..Len(label) |-> IF p \in mask THEN value ELSE label[p]]

\* the loop of lines 213-214 over zip(masks, spec_classes), from its k-th pair on
RECURSIVE RemapFrom(_, _, _, _)
RemapFrom(label, masks, sc, k) ==
    IF k > Min(Len(masks), Len(sc)) THEN label
    ELSE RemapFrom(Assign(label, masks[k], ListIndex(SpecClassIdx(sc), sc[k])), masks, sc, k + 1)

\* Remap writing the spec_classes value itself, not its position among the
\* distinct values
RECURSIVE RemapValueFrom(_, _, _, _)
RemapValueFrom(label, masks, sc, k) ==
    IF k > Min(Len(masks), Len(sc)) THEN label
    ELSE RemapValueFrom(Assign(label, masks[k], sc[k]), masks, sc, k + 1)

RemapByValue(label, sc) ==
    IF sc # <<0, 1, 2>>
    THEN RemapValueFrom(label, [i \in 1..NumClasses |-> Mask(label, i - 1)], sc, 1)
    ELSE label

\* lines 205-214
Remap(label, sc) ==
    IF sc # <<0, 1, 2>>
    THEN RemapFrom(label, [i \in 1..NumClasses |-> Mask(label, i - 1)], sc, 1)
    ELSE label

DefaultTransform(data) ==
    IF data.label # None
    THEN [data EXCEPT !.label = Some(Remap(data.label[1], spec_classes))]
    ELSE data

\* ------------------------------------------------------------ __getitem__
\* the transforms are None: get_stack_img, then _default_transform
GetItem(self, idx) ==
    LET data == GetStackImg(self, idx)
    IN IF data.status # "ok" THEN data ELSE DefaultTransform(data)

\* ---------------------------------------------------------------- actions
Call(op, idx, result) == [op |-> op, idx |-> idx, result |-> result]

NoSample == Sample("none", 0, 0, <<>>, <<>>, None, None, None)

\* __init__: the length check of spec_classes, _get_data, and __getitem__(0)
Construct ==
    /\ pc = "new"
    /\ LET d == GetData
           first == GetItem(d, 0)
           status == IF Len(spec_classes) # NumClasses THEN "AssertionError"
                     ELSE IF d.status # "ok" THEN d.status
                     ELSE first.status
       IN IF status = "ok"
          THEN /\ pc' = "ready"
               /\ imgs' = d.imgs
               /\ labels' = d.labels
               /\ case_slice_indices' = d.case_slice_indices
               /\ train_indices' = d.train_indices
               /\ valid_indices' = d.valid_indices
               /\ test_indices' = d.test_indices
               /\ ret' = Call("__init__", 0, [NoSample EXCEPT !.status = "ok"])
          ELSE /\ pc' = "failed"
               /\ ret' = Call("__init__", 0, [NoSample EXCEPT !.status = status])
               /\ UNCHANGED object
    /\ UNCHANGED <<root, args>>

\* the indices a caller may pass: every valid one, and the nearest invalid
\* one on either side
Indices == (0 - 1)..Len(imgs)

CallImgIdxToCaseIdx(idx) ==
    /\ pc = "ready"
    /\ ret' = Call("img_idx_to_case_idx", idx,
                   [NoSample EXCEPT !.status = "ok", !.index = idx,
                                    !.case_idx = ImgIdxToCaseIdx(Self, idx)])
    /\ UNCHANGED <<root, args, object, pc>>

CallGetStackImg(idx) ==
    /\ pc = "ready"
    /\ ret' = Call("get_stack_img", idx, GetStackImg(Self, idx))
    /\ UNCHANGED <<root, args, object, pc>>

CallGetItem(idx) ==
    /\ pc = "ready"
    /\ ret' = Call("__getitem__", idx, GetItem(Self, idx))
    /\ UNCHANGED <<root, args, object, pc>>

\* ------------------------------------------------------------ initial states
CaseIds == 0..MaxCases

\* the sequences of distinct case ids, at most MaxCases long
CaseLists ==
    UNION {{s \in [1..k -> CaseIds] : \A i, j \in 1..k : i # j => s[i] # s[j]} : k \in 0..MaxCases}

Ids(cases) == {cases[k] : k \in 1..Len(cases)}

PixelArrays == [1..MaxPixels -> 0..(NumClasses - 1)]
Blank == [p \in 1..MaxPixels |-> 0]

\* the case lists: cases cut into train, validation and test
InitLists(cases, t, v) ==
    /\ train_case = SubSeq(cases, 1, t)
    /\ valid_case = SubSeq(cases, t + 1, v)
    /\ test_case = SubSeq(cases, v + 1, Len(cases))

InitObject ==
    /\ pc = "new"
    /\ imgs = <<>>
    /\ labels = <<>>
    /\ case_slice_indices = <<>>
    /\ train_indices = <<>>
    /\ valid_indices = <<>>
    /\ test_indices = <<>>
    /\ ret = Call("none", 0, NoSample)

\* no ROI file: any case lists and slice counts; every labelled case has one
\* label file per image file and the test cases have none
InitIndex ==
    /\ \E k \in 0..MaxCases : \E t \in 0..k : \E v \in t..k :
          /\ InitLists([i \in 1..k |-> i - 1], t, v)
          /\ imaging \in [0..(k - 1) -> 0..MaxSlices]
          /\ segmentation = [c \in 0..(v - 1) |-> [z \in 1..imaging[c] |-> Blank]]
    /\ roi_file = "None"
    /\ rois = <<>>
    /\ roi_error_range = 0
    /\ stack_num = 1
    /\ spec_classes = <<0, 1, 2>>
    /\ InitObject

\* no ROI file: one training, one validation and one test case of any depth,
\* and any stack_num
InitWindow ==
    /\ InitLists(<<0, 1, 2>>, 1, 2)
    /\ imaging \in [{0, 1, 2} -> 0..MaxDepth]
    /\ segmentation = [c \in {0, 1} |-> [z \in 1..imaging[c] |-> Blank]]
    /\ roi_file = "None"
    /\ rois = <<>>
    /\ roi_error_range = 0
    /\ stack_num \in 1..MaxStack
    /\ spec_classes = <<0, 1, 2>>
    /\ InitObject

\* the ROI records of a case with at most MaxDepth slices: bounds on either
\* side of the case, negative ones included
RoiRecords == [min_z : (0 - 1)..(MaxDepth + 1), max_z : (0 - 2)..(MaxDepth + 1)]

\* one training case trimmed by its ROI record; its segmentation directory may
\* hold one file more than its imaging directory
InitTrim ==
    /\ InitLists(<<0>>, 1, 1)
    /\ imaging \in [{0} -> 0..MaxDepth]
    /\ \E extra \in 0..1 : segmentation = [c \in {0} |-> [z \in 1..(imaging[c] + extra) |-> Blank]]
    /\ roi_file = "roi.json"
    /\ \E r \in RoiRecords : rois = (CaseKey(0) :> [kidney |-> r])
    /\ roi_error_range \in 0..MaxErr
    /\ stack_num = 1
    /\ spec_classes = <<0, 1, 2>>
    /\ InitObject

\* one training slice with any label array, and any spec_classes of length
\* NumClasses or one shorter
InitRemap ==
    /\ InitLists(<<0>>, 1, 1)
    /\ imaging = (0 :> 1)
    /\ \E a \in PixelArrays : segmentation = (0 :> <<a>>)
    /\ roi_file = "None"
    /\ rois = <<>>
    /\ roi_error_range = 0
    /\ stack_num = 1
    /\ spec_classes \in UNION {[1..n -> 0..(NumClasses - 1)] : n \in (NumClasses - 1)..NumClasses}
    /\ InitObject

\* the ROI tables that hold a record for each of the given cases
RoiTables(keys) ==
    {[k \in {CaseKey(c) : c \in keys} |-> [kidney |-> f[k]]] :
        f \in [{CaseKey(c) : c \in keys} -> [min_z : 0..1, max_z : {MaxSlices}]]}

\* case lists in any order of ids, each case MaxSlices deep, with an ROI table
\* of the listed cases
InitRoi ==
    /\ \E cases \in CaseLists : \E t \in 0..Len(cases) : \E v \in t..Len(cases) :
          /\ InitLists(cases, t, v)
          /\ imaging = [c \in Ids(cases) |-> MaxSlices]
          /\ segmentation = [c \in Ids(SubSeq(cases, 1, v)) |-> [z \in 1..imaging[c] |-> Blank]]
          /\ rois \in RoiTables(Ids(cases))
    /\ roi_file = "roi.json"
    /\ roi_error_range = 0
    /\ stack_num = 1
    /\ spec_classes = <<0, 1, 2>>
    /\ InitObject

Init == InitIndex \/ InitWindow \/ InitTrim \/ InitRemap

Next ==
    \/ Construct
    \/ \E idx \in Indices : CallImgIdxToCaseIdx(idx)
    \/ \E idx \in Indices : CallGetStackImg(idx)
    \/ \E idx \in Indices : CallGetItem(idx)

Spec == Init /\ [][Next]_vars

\* the same program on case lists in any order of ids with an ROI table
SpecRoi == InitRoi /\ [][Next]_vars

\* ------------------------------------------------------------------ claims
\* the listed cases in index order, and what the claims say of them
Cases == train_case \o valid_case \o test_case
N == Len(imgs)
Valid(idx) == 0 <= idx /\ idx < N
\* the cases whose boundaries enclose idx
Owners(idx) ==
    {c \in 0..(Len(Cases) - 1) :
        case_slice_indices[c + 1] <= idx /\ idx < case_slice_indices[c + 2]}
\* the slices of the flat index that come from the given cases
SlicesOf(ids) == Cardinality({k \in 1..N : imgs[k].case \in ids})
Read == pc = "ready" /\ ret.op = "get_stack_img"

\* C1: the boundaries are the running sums of the cases' visible slice counts,
\* and for every valid index img_idx_to_case_idx returns the one case whose
\* boundaries enclose it, which is the case the slice at that index comes from.
C1_LocateCase ==
    (pc = "ready" /\ ret.op = "img_idx_to_case_idx" /\ Valid(ret.idx)) =>
        /\ Len(case_slice_indices) = Len(Cases) + 1
        /\ case_slice_indices[1] = 0
        /\ \A c \in 1..Len(Cases) :
              case_slice_indices[c + 1] - case_slice_indices[c] = SlicesOf({Cases[c]})
        /\ Owners(ret.idx) = {ret.result.case_idx}
        /\ imgs[ret.idx + 1].case = Cases[ret.result.case_idx + 1]

\* a lookup that lands in a later case, past a case with no visible slice
C1_Witness ==
    /\ pc = "ready" /\ ret.op = "img_idx_to_case_idx" /\ Valid(ret.idx)
    /\ ret.result.case_idx >= 2
    /\ case_slice_indices[2] > 0
    /\ \E c \in 1..ret.result.case_idx : case_slice_indices[c + 1] = case_slice_indices[c]

\* C2: for an index below 0 or at least N, img_idx_to_case_idx fails with an
\* index error and get_stack_img ends in an error, returning no sample.
C2_OutOfRangeFails ==
    (pc = "ready" /\ ~Valid(ret.idx)) =>
        /\ ret.op = "img_idx_to_case_idx" => ret.result.status = "IndexError"
        /\ ret.op = "get_stack_img" => ret.result.status # "ok"

\* C3: after construction the subset ranges are [0, T), [T, T + V) and
\* [T + V, N), with T and V the visible slices of the train and validation
\* cases: pairwise disjoint, ascending, and together 0..N-1.
C3_SubsetRanges ==
    pc = "ready" =>
        LET T == SlicesOf(Ids(train_case))
            V == SlicesOf(Ids(valid_case))
            set(l) == {l[k] : k \in 1..Len(l)}
        IN /\ train_indices = Range(0, T)
           /\ valid_indices = Range(T, T + V)
           /\ test_indices = Range(T + V, N)
           /\ set(train_indices) \cap set(valid_indices) = {}
           /\ set(train_indices) \cap set(test_indices) = {}
           /\ set(valid_indices) \cap set(test_indices) = {}
           /\ set(train_indices) \cup set(valid_indices) \cup set(test_indices) = 0..(N - 1)

\* a constructed dataset whose three subsets are all non-empty
C3_Witness ==
    /\ pc = "ready"
    /\ Len(train_indices) >= 2 /\ Len(valid_indices) >= 1 /\ Len(test_indices) >= 1
    /\ Len(train_case) = 1

\* C4: for a valid center index and a stack of 1, 3 or 5, each position of the
\* window is clamped to the first or last slice of the owning case, so every
\* index read lies within the case's boundaries and every file read is a slice
\* of the case that owns the center.
C4_WindowInCase ==
    (Read /\ Valid(ret.idx) /\ stack_num \in {1, 3, 5}) =>
        \A c \in Owners(ret.idx) :
            LET lo == case_slice_indices[c + 1]
                hi == case_slice_indices[c + 2]
                w == ret.result.window
            IN /\ Len(w) = stack_num
               /\ Len(ret.result.image) = stack_num
               /\ \A k \in 1..Len(w) :
                     LET raw == ret.idx - stack_num \div 2 + k - 1 IN
                     /\ w[k] = IF raw < lo THEN lo ELSE IF raw >= hi THEN hi - 1 ELSE raw
                     /\ lo <= w[k] /\ w[k] < hi
                     /\ ret.result.image[k] = imgs[w[k] + 1]
                     /\ ret.result.image[k].case = imgs[ret.idx + 1].case

\* the last slice of a case that another case follows, read with a stack of 3:
\* the window ends on the center, not on the next case's first slice
C4_Witness ==
    /\ Read /\ Valid(ret.idx) /\ stack_num = 3
    /\ ret.idx >= 1 /\ ret.idx + 1 < N
    /\ imgs[ret.idx + 2].case # imgs[ret.idx + 1].case
    /\ ret.result.window = <<ret.idx - 1, ret.idx, ret.idx>>

\* C5: the ROI of a returned sample is the record of the case that owns the
\* slice, looked up by that case's id, and is absent exactly when no ROI file
\* was given.
C5_RoiOfOwningCase ==
    (Read /\ Valid(ret.idx) /\ ret.result.status = "ok") =>
        IF roi_file = "None" THEN ret.result.roi = None
        ELSE ret.result.roi = Some(rois[CaseKey(imgs[ret.idx + 1].case)].kidney)

\* C6: with an ROI file, the slices kept of a case with R files are the raw
\* positions max(0, min_z - e) .. min(R, max_z + e) - 1, none when that range
\* is empty, and the labels kept are at the same positions.
C6_RoiTrim ==
    (pc = "ready" /\ roi_file # "None") =>
        \A c \in 1..Len(Cases) :
            LET case == Cases[c]
                roi == rois[CaseKey(case)].kidney
                lo == Max(0, roi.min_z - roi_error_range)
                hi == Min(imaging[case], roi.max_z + roi_error_range)
                first == case_slice_indices[c]
                last == case_slice_indices[c + 1]
            IN /\ SubSeq(imgs, first + 1, last)
                    = [k \in 1..Max(hi - lo, 0) |-> Ref("imaging", case, lo + k - 1)]
               /\ c <= Len(train_case) + Len(valid_case) =>
                     SubSeq(labels, first + 1, last)
                         = [k \in 1..Max(hi - lo, 0) |-> Ref("segmentation", case, lo + k - 1)]

\* C7: the visible slice count of a case never exceeds its raw slice count,
\* a smaller roi_error_range never shows more slices and a larger one never
\* fewer.
C7_TrimMonotonic ==
    (pc = "ready" /\ roi_file # "None") =>
        \A c \in 1..Len(Cases) :
            LET case == Cases[c]
                R == imaging[case]
                roi == rois[CaseKey(case)].kidney
                count == case_slice_indices[c + 1] - case_slice_indices[c]
                Visible(e) == Len(TrimDir("imaging", case, R, RoiRange(R, TRUE, roi, e)))
            IN /\ count <= R
               /\ \A e \in 0..MaxErr :
                     /\ e <= roi_error_range => Visible(e) <= count
                     /\ e >= roi_error_range => count <= Visible(e)

\* target(c): how many distinct values spec_classes holds before the first
\* occurrence of spec_classes[c]
Target(sc, c) ==
    LET first == CHOOSE j \in 1..Len(sc) : sc[j] = sc[c + 1] /\ \A i \in 1..(j - 1) : sc[i] # sc[c + 1]
    IN Cardinality({sc[i] : i \in 1..(first - 1)})

\* C8: __getitem__ returns the label array with each pixel of original value c
\* rewritten to target(c), decided from the original value alone; with
\* spec_classes [0,1,2] the array is unchanged, and with [0,1,1] kidney and
\* tumor pixels get one value and background pixels another.
C8_Remap ==
    (pc = "ready" /\ ret.op = "__getitem__" /\ ret.result.status = "ok"
        /\ ret.result.label # None) =>
        LET orig == LoadLabel(ret.result.label_ref[1])
            out == ret.result.label[1]
        IN /\ DOMAIN out = DOMAIN orig
           /\ \A p \in DOMAIN orig : out[p] = Target(spec_classes, orig[p])
           /\ spec_classes = <<0, 1, 2>> => out = orig
           /\ spec_classes = <<0, 1, 1>> =>
                 \A p, q \in DOMAIN orig :
                     /\ (orig[p] \in {1, 2} /\ orig[q] \in {1, 2}) => out[p] = out[q]
                     /\ (orig[p] = 0 /\ orig[q] \in {1, 2}) => out[p] # out[q]

\* a label with a kidney and a tumor pixel, remapped under a spec_classes whose
\* values are not their own positions
C8_Witness ==
    /\ pc = "ready" /\ ret.op = "__getitem__" /\ ret.result.status = "ok"
    /\ spec_classes = <<0, 2, 2>>
    /\ LoadLabel(ret.result.label_ref[1]) = <<1, 2>>
    /\ ret.result.label = Some(<<1, 1>>)

\* C9: for any stack_num, odd or even, a read of a valid index loads exactly
\* stack_num window positions, the first being idx - stack_num // 2 before
\* clamping.
C9_StackWidth ==
    (Read /\ Valid(ret.idx) /\ ret.result.status = "ok") =>
        /\ Len(ret.result.window) = stack_num
        /\ Len(ret.result.image) = stack_num

\* C10: a read of a valid index returns no label exactly when the index is in
\* the test range, and otherwise the label stored at that index, which is the
\* file of the same case and the same position as the image at that index.
C10_Label ==
    (Read /\ Valid(ret.idx)) =>
        IF ret.idx >= SlicesOf(Ids(train_case) \cup Ids(valid_case))
        THEN ret.result.label_ref = None /\ ret.result.label = None
        ELSE /\ ret.result.status = "ok"
             /\ ret.result.label_ref = Some(labels[ret.idx + 1])
             /\ labels[ret.idx + 1].case = imgs[ret.idx + 1].case
             /\ labels[ret.idx + 1].z = imgs[ret.idx + 1].z
             /\ ret.result.label = Some(LoadLabel(labels[ret.idx + 1]))

====
